---- MODULE Spec2Model ----
(***************************************************************************)
(* Generation lifecycle of the AI clothing visualizer: the create (POST)    *)
(* and status (GET) handlers of the try-on and composite routes, the two    *)
(* provider adapters, the record store row per generation and the artifact  *)
(* store.                                                                   *)
(***************************************************************************)
EXTENDS Integers, Sequences, FiniteSets, TLC

\* ---------------------------------------------------------------- bounds
MaxGen == 1
MaxChecks == 3
MaxPolls == 1
MaxFaults == 1
MaxInFlight == 2

\* ---------------------------------------------------------------- domains
Ids == 1..MaxGen
NoId == 0
Slots == {1, 2}
Endpoints == {"try-on", "composite"}
ExtIds == {"predA", "predB"}
ReqPrompts == {4, 10}
NullProgress == 0 - 1
NoPath == [gen |-> 0, name |-> 0]
NoError == <<"none", "">>
NoUrl == [kind |-> "none", bucket |-> "none", path |-> NoPath, token |-> "none"]

\* ---------------------------------------------------------------- schemas
PromptMinFive(type) == 5

\* the min() of the prompt in the two request schemas
PromptMin(type) == IF type = "try-on" THEN 5 ELSE 10

PromptMax == 1000

\* a request body without a prompt field
NoPrompt == 0 - 1

\* the length of "A person wearing clothing"
DefaultPromptLength == 25

\* the prompt after parsing: the try-on schema fills in its default for a missing one
ParsedPrompt(type, prompt) ==
  IF prompt = NoPrompt /\ type = "try-on" THEN DefaultPromptLength ELSE prompt

RequestValid(type, hasImages, prompt) ==
  /\ hasImages
  /\ prompt >= PromptMin(type)
  /\ prompt <= PromptMax

\* ---------------------------------------------------------------- stores
BucketOf(ep) == IF ep = "try-on" THEN "try-on-images" ELSE "composite-images"

NoRecord ==
  [exists |-> FALSE, type |-> "none", status |-> "none", progress |-> NullProgress,
   external_id |-> "none", storage_path |-> NoPath, error |-> NoError, metadata |-> 0]

InsertedRecord(type, ext, prompt) ==
  [exists |-> TRUE, type |-> type, status |-> "processing", progress |-> NullProgress,
   external_id |-> ext, storage_path |-> NoPath, error |-> NoError, metadata |-> prompt]

UpdatedRecord(rec, newStatus, progress, storagePath, error) ==
  [rec EXCEPT !.status = newStatus, !.progress = progress,
              !.storage_path = storagePath, !.error = error]

\* generation.progress || 0
ProgressOrZero(p) == IF p = NullProgress THEN 0 ELSE p

PublicUrl(bucket, path) ==
  [kind |-> "public", bucket |-> bucket, path |-> path, token |-> "none"]

SignAnswers == {"signed", "error", "throw"}

GetImageUrlNoFallback(bucket, path, sign) ==
  IF sign \in {"error", "throw"}
    THEN NoUrl
    ELSE [kind |-> "signed", bucket |-> bucket, path |-> path, token |-> "token"]

\* getImageUrl: the signed URL, or the public URL when createSignedUrl errors or throws
GetImageUrl(bucket, path, sign) ==
  IF sign \in {"error", "throw"}
    THEN PublicUrl(bucket, path)
    ELSE [kind |-> "signed", bucket |-> bucket, path |-> path, token |-> "token"]

\* ---------------------------------------------------------------- providers
PollStatuses == {"starting", "processing", "succeeded", "completed", "failed", "canceled"}

Outputs == {"none", "str", "arr", "emptyArr", "objImage", "objUrl", "objOutput",
            "objResult", "objGenerated", "objOther"}

ProviderErrors == {"none", "face not detected"}

\* what a poll of the provider answers: ok = FALSE is a network or non-success HTTP answer
PollAnswers ==
  [ok : {FALSE}, status : {"none"}, output : {"none"}, error : {"none"}]
    \cup [ok : {TRUE}, status : {"starting", "processing", "canceled"}, output : {"none"}, error : {"none"}]
    \cup [ok : {TRUE}, status : {"succeeded", "completed"}, output : Outputs, error : {"none"}]
    \cup [ok : {TRUE}, status : {"failed"}, output : {"none"}, error : ProviderErrors]

\* the output-URL probing of the try-on status handler
ResolveTryOn(output) ==
  IF output \in {"str", "arr", "objImage", "objUrl", "objOutput", "objResult", "objGenerated"}
    THEN "valid" ELSE "none"

\* the composite status handler takes prediction.output as the URL when it is truthy;
\* fetch() turns it into a string: a one-element array gives its element, an empty
\* array the empty string and an object "[object Object]"
ResolveComposite(output) ==
  IF output = "none" THEN "none"
  ELSE IF output \in {"str", "arr"} THEN "valid" ELSE "invalid"

Resolve(ep, output) == IF ep = "try-on" THEN ResolveTryOn(output) ELSE ResolveComposite(output)

TypeOf(output) ==
  IF output = "none" THEN "undefined" ELSE IF output = "str" THEN "string" ELSE "object"

NoOutputError(ep, output) ==
  IF ep = "try-on"
    THEN <<"No output image received from the API. Output format", TypeOf(output)>>
    ELSE <<"No output image received from the API", "">>

Msg(text) == <<text, "">>

SuccessStatusesCompleted(ep) == {"completed"}

\* the provider statuses a status handler takes as a finished job
SuccessStatuses(ep) == IF ep = "try-on" THEN {"succeeded"} ELSE {"completed", "succeeded"}

FinalStatuses(ep) ==
  IF ep = "try-on" THEN {"completed", "failed"} ELSE {"completed", "succeeded", "failed"}

ProgressEstimateFlat(status) == 50

\* the coarse progress of a job that is still running
ProgressEstimate(status) == IF status = "processing" THEN 50 ELSE 25

FailedErrorGeneric(error) == Msg("Generation failed")

\* predictionStatus.error || 'Generation failed'
FailedError(error) == IF error = "none" THEN Msg("Generation failed") ELSE Msg(error)

DownloadAnswers == {"ok", "httpError", "throws"}

UploadAnswers == {"ok", "errBucket", "errNotFound", "errOther", "throws"}

\* uploadImage: the error it returns for the store's answer, "none" when stored
UploadImage(answer, exists) ==
  IF answer \in {"errBucket", "errNotFound"} THEN "bucket"
  ELSE IF answer \in {"errOther", "throws"} THEN "other"
  ELSE IF exists THEN "other"
  ELSE "none"

UploadErrorTextGeneric(uploadError) == Msg("Failed to store the generated image")

\* the handler's classification of the error uploadImage returned
UploadErrorText(uploadError) ==
  IF uploadError = "bucket"
    THEN Msg("Storage configuration issue")
    ELSE Msg("Failed to store the generated image")

\* ---------------------------------------------------------------- state
VARIABLES records, objects, nextId, cr, chk, started, downloads, faults, created, obs,
          lastResp, overlapping, req, loop, job, page

vars == <<records, objects, nextId, cr, chk, started, downloads, faults, created, obs,
          lastResp, overlapping, req, loop, job, page>>

IdleCreate == [pc |-> "idle", id |-> NoId, ext |-> "none", prompt |-> 0, polls |-> 0, temp |-> FALSE]

IdleCheck ==
  [pc |-> "idle", ep |-> "none", id |-> NoId, gen |-> NoRecord, url |-> "none",
   newStatus |-> "none", progress |-> 0, storagePath |-> NoPath, error |-> NoError,
   fetched |-> FALSE]

\* a polling effect of the page before a generation is created
IdlePoller == [isPolling |-> FALSE, interval |-> FALSE, inFlight |-> 0, status |-> "none",
               error |-> FALSE]

\* the page's two polling effects, one per route
IdlePage == [ep \in Endpoints |-> IdlePoller]

\* no provider job is followed: poll answers are unconstrained and checks are counted
NoJob == [ok |-> FALSE, status |-> "untracked", output |-> "none", error |-> "none"]

\* no run of the adapter's polling loop under observation
NoLoop == [pc |-> "off", elapsed |-> 0, outcome |-> "none"]

\* no create request under validation
NoRequest ==
  [phase |-> "none", type |-> "none", first |-> FALSE, second |-> FALSE,
   prompt |-> NoPrompt, used |-> NoPrompt]

NoResponse == [op |-> "none", http |-> 0, id |-> NoId]

NotCreated ==
  [http |-> 0, type |-> "none", status |-> "none", ext |-> "none", prompt |-> 0, polls |-> 0]

Init ==
  /\ records = [i \in Ids |-> NoRecord]
  /\ objects = {}
  /\ nextId = 1
  /\ cr = IdleCreate
  /\ chk = [k \in Slots |-> IdleCheck]
  /\ started = 0
  /\ downloads = [i \in Ids |-> 0]
  /\ faults = 0
  /\ created = [i \in Ids |-> NotCreated]
  /\ obs = [i \in Ids |-> <<>>]
  /\ lastResp = NoResponse
  /\ overlapping = FALSE
  /\ req = NoRequest
  /\ loop = NoLoop
  /\ job = NoJob
  /\ page = IdlePage

\* the same start, with clients that send requests while others are in flight
InitOverlap ==
  /\ records = [i \in Ids |-> NoRecord]
  /\ objects = {}
  /\ nextId = 1
  /\ cr = IdleCreate
  /\ chk = [k \in Slots |-> IdleCheck]
  /\ started = 0
  /\ downloads = [i \in Ids |-> 0]
  /\ faults = 0
  /\ created = [i \in Ids |-> NotCreated]
  /\ obs = [i \in Ids |-> <<>>]
  /\ lastResp = NoResponse
  /\ overlapping = TRUE
  /\ req = NoRequest
  /\ loop = NoLoop
  /\ job = NoJob
  /\ page = IdlePage

NoHandlerInFlight == cr.pc = "idle" /\ \A k \in Slots : chk[k].pc = "idle"

\* a request may arrive when the clients' discipline allows it
MayStart == overlapping \/ NoHandlerInFlight

\* the number of status checks is bounded unless a provider job is followed
MayCheck == job # NoJob \/ started < MaxChecks

NextStarted == IF job # NoJob THEN started ELSE started + 1

\* a call of the record store answers (dbOk) or errors, at most MaxFaults times
StoreAnswers(dbOk) ==
  /\ dbOk \/ faults < MaxFaults
  /\ faults' = IF dbOk THEN faults ELSE faults + 1

\* ---------------------------------------------------------------- create (POST)
CreateResponseAlwaysOk(http, type, ext, prompt, polls) ==
  [http |-> 200, type |-> type, status |-> "processing", ext |-> ext, prompt |-> prompt,
   polls |-> polls]

\* what the caller of create is answered, with the provider's id and the polls made
CreateResponse(http, type, ext, prompt, polls) ==
  [http |-> http, type |-> type, status |-> IF http = 200 THEN "processing" ELSE "none",
   ext |-> ext, prompt |-> prompt, polls |-> polls]

InsertGeneration(id, type, ext, prompt, dbOk) ==
  IF dbOk THEN [records EXCEPT ![id] = InsertedRecord(type, ext, prompt)] ELSE records

PostInvalid(type, hasImages, prompt) ==
  /\ MayStart
  /\ cr.pc = "idle"
  /\ ~RequestValid(type, hasImages, prompt)
  /\ lastResp' = [op |-> "create", http |-> 400, id |-> NoId]
  /\ UNCHANGED <<records, objects, nextId, cr, chk, started, downloads, faults, created, obs, overlapping, req, loop, job, page>>

PostTryOnSubmitFails(prompt) ==
  /\ MayStart
  /\ cr.pc = "idle"
  /\ nextId <= MaxGen
  /\ RequestValid("try-on", TRUE, prompt)
  /\ nextId' = nextId + 1
  /\ created' = [created EXCEPT ![nextId] = CreateResponse(500, "try-on", "none", prompt, 0)]
  /\ lastResp' = [op |-> "create", http |-> 500, id |-> nextId]
  /\ UNCHANGED <<records, objects, cr, chk, started, downloads, faults, obs, overlapping, req, loop, job, page>>

PostTryOn(prompt, ext, dbOk) ==
  /\ MayStart
  /\ cr.pc = "idle"
  /\ nextId <= MaxGen
  /\ RequestValid("try-on", TRUE, prompt)
  /\ nextId' = nextId + 1
  /\ records' = InsertGeneration(nextId, "try-on", ext, prompt, dbOk)
  /\ created' = [created EXCEPT ![nextId] = CreateResponse(200, "try-on", ext, prompt, 0)]
  /\ lastResp' = [op |-> "create", http |-> 200, id |-> nextId]
  /\ StoreAnswers(dbOk)
  /\ UNCHANGED <<objects, cr, chk, started, downloads, obs, overlapping, req, loop, job, page>>

ModelName == 1

SceneName == 2

TempObject(id, name) ==
  [bucket |-> "temp-bucket", gen |-> id, name |-> name, content |-> "input"]

\* uploadImagesToSupabase: both uploads are attempted before either result is looked at
TempUploaded(id, modelOk, sceneOk) ==
  (IF modelOk THEN {TempObject(id, ModelName)} ELSE {})
    \cup (IF sceneOk THEN {TempObject(id, SceneName)} ELSE {})

\* cleanupTempImages: deletes the paths generateComposite has been handed
CleanupTempImages(objs, id, temp) ==
  IF temp THEN objs \ {TempObject(id, ModelName), TempObject(id, SceneName)} ELSE objs

\* generateComposite up to the provider's answer to the submit; inline: the images are
\* data: URLs and go through the temp bucket
PostCompositeSubmitFails(prompt, inline, modelOk, sceneOk) ==
  /\ MayStart
  /\ cr.pc = "idle"
  /\ nextId <= MaxGen
  /\ RequestValid("composite", TRUE, prompt)
  /\ inline \/ (modelOk /\ sceneOk)
  /\ nextId' = nextId + 1
  /\ objects' = IF inline
                  THEN CleanupTempImages(objects \cup TempUploaded(nextId, modelOk, sceneOk),
                                         nextId, modelOk /\ sceneOk)
                  ELSE objects
  /\ created' = [created EXCEPT ![nextId] = CreateResponse(500, "composite", "none", prompt, 0)]
  /\ lastResp' = [op |-> "create", http |-> 500, id |-> nextId]
  /\ UNCHANGED <<records, cr, chk, started, downloads, faults, obs, overlapping, req, loop, job, page>>

PostCompositeSubmit(prompt, inline, ext) ==
  /\ MayStart
  /\ cr.pc = "idle"
  /\ nextId <= MaxGen
  /\ RequestValid("composite", TRUE, prompt)
  /\ nextId' = nextId + 1
  /\ objects' = IF inline THEN objects \cup TempUploaded(nextId, TRUE, TRUE) ELSE objects
  /\ cr' = [pc |-> "pollForResults", id |-> nextId, ext |-> ext, prompt |-> prompt,
            polls |-> 0, temp |-> inline]
  /\ UNCHANGED <<records, chk, started, downloads, faults, created, obs, lastResp, overlapping, req, loop, job, page>>

\* pollForResults: the provider says neither succeeded nor failed; wait and poll again
PostCompositeWait(status) ==
  /\ cr.pc = "pollForResults"
  /\ cr.polls < MaxPolls
  /\ status \in PollStatuses \ {"succeeded", "failed"}
  /\ cr' = [cr EXCEPT !.polls = @ + 1]
  /\ UNCHANGED <<records, objects, nextId, chk, started, downloads, faults, created, obs, lastResp, overlapping, req, loop, job, page>>

\* pollForResults throws: the poll is not OK, the job failed, or the loop timed out
PostCompositeThrows ==
  /\ cr.pc = "pollForResults"
  /\ objects' = CleanupTempImages(objects, cr.id, cr.temp)
  /\ created' = [created EXCEPT ![cr.id] =
       CreateResponse(500, "composite", cr.ext, cr.prompt, cr.polls + 1)]
  /\ lastResp' = [op |-> "create", http |-> 500, id |-> cr.id]
  /\ cr' = IdleCreate
  /\ UNCHANGED <<records, nextId, chk, started, downloads, faults, obs, overlapping, req, loop, job, page>>

\* pollForResults returns the output of the succeeded job; the record is inserted
PostCompositeDone(dbOk) ==
  /\ cr.pc = "pollForResults"
  /\ objects' = CleanupTempImages(objects, cr.id, cr.temp)
  /\ records' = InsertGeneration(cr.id, "composite", cr.ext, cr.prompt, dbOk)
  /\ created' = [created EXCEPT ![cr.id] =
       CreateResponse(200, "composite", cr.ext, cr.prompt, cr.polls + 1)]
  /\ lastResp' = [op |-> "create", http |-> 200, id |-> cr.id]
  /\ cr' = IdleCreate
  /\ StoreAnswers(dbOk)
  /\ UNCHANGED <<nextId, chk, started, downloads, obs, overlapping, req, loop, job, page>>

\* ---------------------------------------------------------------- status (GET)
\* obs holds the response of the latest status check of a generation
Observe(seq, o) == <<o>>

Observation(http, status, progress, imageUrl, error, readStatus, polled, wrote, storeCalls, fetched, again) ==
  [http |-> http, status |-> status, progress |-> progress, imageUrl |-> imageUrl,
   error |-> error, readStatus |-> readStatus, polled |-> polled, wrote |-> wrote,
   storeCalls |-> storeCalls, fetched |-> fetched, again |-> again]

\* the latest status check of the generation was answered from a final row
AnsweredFinal(seq) ==
  seq # <<>> /\ seq[1].http = 200 /\ ~seq[1].polled

ProjectionUrlAnyStatus(ep, status, storagePath, sign) ==
  IF storagePath # NoPath THEN GetImageUrl(BucketOf(ep), storagePath, sign) ELSE NoUrl

\* the imageUrl of a projection
ProjectionUrl(ep, status, storagePath, sign) ==
  IF ep = "try-on"
    THEN IF status = "completed" /\ storagePath # NoPath
           THEN GetImageUrl(BucketOf(ep), storagePath, sign) ELSE NoUrl
    ELSE IF status \in {"completed", "succeeded"}
           THEN GetImageUrl(BucketOf(ep), storagePath, sign) ELSE NoUrl

\* createSignedUrl calls of the final-state branch
TerminalStoreCalls(ep, status, storagePath) ==
  IF ProjectionUrl(ep, status, storagePath, "error") = NoUrl THEN 0 ELSE 1

\* createSignedUrl calls after the update: one for the generation log, one for the response
UpdateStoreCalls(ep, status, storagePath) ==
  (IF status \in {"completed", "succeeded"} THEN 1 ELSE 0)
    + TerminalStoreCalls(ep, status, storagePath)

IsFinalOnlyCompleted(ep, status) == status = "completed"

IsFinal(ep, status) == status \in FinalStatuses(ep)

GetMissingId(ep) ==
  /\ MayStart
  /\ lastResp' = [op |-> "status", http |-> 400, id |-> NoId]
  /\ UNCHANGED <<records, objects, nextId, cr, chk, started, downloads, faults, created, obs, overlapping, req, loop, job, page>>

GetNotFoundAnswersOk(ep, id, dbOk) ==
  /\ MayStart
  /\ ~dbOk \/ ~records[id].exists
  /\ lastResp' = [op |-> "status", http |-> 200, id |-> id]
  /\ StoreAnswers(dbOk)
  /\ UNCHANGED <<records, objects, nextId, cr, chk, started, downloads, created, obs, overlapping, req, loop, job, page>>

\* the select errors or finds no row: 404
GetNotFound(ep, id, dbOk) ==
  /\ MayStart
  /\ ~dbOk \/ ~records[id].exists
  /\ lastResp' = [op |-> "status", http |-> 404, id |-> id]
  /\ StoreAnswers(dbOk)
  /\ UNCHANGED <<records, objects, nextId, cr, chk, started, downloads, created, obs, overlapping, req, loop, job, page>>

GetTerminal(ep, id, sign) ==
  /\ MayStart
  /\ MayCheck
  /\ records[id].exists
  /\ IsFinal(ep, records[id].status)
  /\ started' = NextStarted
  /\ LET g == records[id] IN
       obs' = [obs EXCEPT ![id] = Observe(@,
         Observation(200, g.status, 100, ProjectionUrl(ep, g.status, g.storage_path, sign),
                     g.error, g.status, FALSE, FALSE,
                     TerminalStoreCalls(ep, g.status, g.storage_path), FALSE,
                     AnsweredFinal(obs[id])))]
  /\ lastResp' = [op |-> "status", http |-> 200, id |-> id]
  /\ UNCHANGED <<records, objects, nextId, cr, chk, downloads, faults, created, overlapping, req, loop, job, page>>

GetRead(k, ep, id) ==
  /\ MayStart
  /\ MayCheck
  /\ chk[k].pc = "idle"
  /\ \A j \in Slots : j < k => chk[j].pc # "idle"
  /\ records[id].exists
  /\ ~IsFinal(ep, records[id].status)
  /\ started' = NextStarted
  /\ chk' = [chk EXCEPT ![k] = [IdleCheck EXCEPT !.pc = "poll", !.ep = ep, !.id = id,
                                                 !.gen = records[id]]]
  /\ UNCHANGED <<records, objects, nextId, cr, downloads, faults, created, obs, lastResp, overlapping, req, loop, job, page>>

\* the rows after the inner catch: it logs and answers, and writes nothing
RowsFailedOnPollError(recs, c) ==
  [recs EXCEPT ![c.id] = UpdatedRecord(@, "failed", 100, @.storage_path, <<"poll error", "">>)]

RowsAfterPollError(recs, c) == recs

GetPollThrowsAnswersStatus(k) ==
  /\ chk[k].pc = "poll"
  /\ records' = RowsAfterPollError(records, chk[k])
  /\ LET c == chk[k] IN
       obs' = [obs EXCEPT ![c.id] = Observe(@,
         Observation(200, c.gen.status, ProgressOrZero(c.gen.progress), NoUrl, NoError,
                     c.gen.status, TRUE, FALSE, 0, FALSE, FALSE))]
  /\ lastResp' = [op |-> "status", http |-> 200, id |-> chk[k].id]
  /\ chk' = [chk EXCEPT ![k] = IdleCheck]
  /\ UNCHANGED <<objects, nextId, cr, started, downloads, faults, created, overlapping, req, loop, job, page>>

\* the provider adapter throws: the inner catch answers 500
GetPollThrows(k) ==
  /\ chk[k].pc = "poll"
  /\ records' = RowsAfterPollError(records, chk[k])
  /\ LET c == chk[k] IN
       obs' = [obs EXCEPT ![c.id] = Observe(@,
         Observation(500, "none", 0, NoUrl, NoError, c.gen.status, TRUE, FALSE, 0, FALSE, FALSE))]
  /\ lastResp' = [op |-> "status", http |-> 500, id |-> chk[k].id]
  /\ chk' = [chk EXCEPT ![k] = IdleCheck]
  /\ UNCHANGED <<objects, nextId, cr, started, downloads, faults, created, overlapping, req, loop, job, page>>

\* progress after a poll that is neither a success nor a failure
InProgressProgress(old, status) == ProgressEstimate(status)

\* progress when the provider reports the job failed
FailedProgress(old) == old

\* the handler's locals after the poll answered
AfterPoll(c, ans) ==
  LET old == ProgressOrZero(c.gen.progress)
      base == [c EXCEPT !.newStatus = c.gen.status, !.progress = old,
                        !.storagePath = c.gen.storage_path, !.error = c.gen.error]
  IN IF ans.status \in SuccessStatuses(c.ep)
       THEN IF Resolve(c.ep, ans.output) # "none"
              THEN [base EXCEPT !.pc = "fetch", !.newStatus = "completed", !.progress = 100,
                                !.url = Resolve(c.ep, ans.output)]
              ELSE [base EXCEPT !.pc = "update", !.newStatus = "failed", !.progress = 100,
                                !.error = NoOutputError(c.ep, ans.output)]
     ELSE IF ans.status = "failed"
       THEN [base EXCEPT !.pc = "update", !.newStatus = "failed",
                         !.progress = FailedProgress(old), !.error = FailedError(ans.error)]
     ELSE [base EXCEPT !.pc = "update", !.progress = InProgressProgress(old, ans.status)]

GetPoll(k, ans) ==
  /\ chk[k].pc = "poll"
  /\ ans.ok
  /\ chk' = [chk EXCEPT ![k] = AfterPoll(chk[k], ans)]
  /\ UNCHANGED <<records, objects, nextId, cr, started, downloads, faults, created, obs, lastResp, overlapping, req, loop, job, page>>

StoredObject(ep, path, download) ==
  [bucket |-> BucketOf(ep), gen |-> path.gen, name |-> path.name,
   content |-> IF download = "ok" THEN "image" ELSE "errorBody"]

ObjectAt(objs, bucket, path) ==
  \E o \in objs : o.bucket = bucket /\ o.gen = path.gen /\ o.name = path.name

StoragePathFlat(id, file) == [gen |-> 0, name |-> file]

\* `${generationId}/${filename}`
StoragePath(id, file) == [gen |-> id, name |-> file]

GenerateFixedFilename(count) == 1

\* generateUniqueFilename: `${timestamp}-${random}.${extension}`, a name no earlier call gave
GenerateUniqueFilename(count) == count + 1

\* the handler's locals after the download-and-upload step
AfterFetch(c, objs, download, file, upload) ==
  LET path == StoragePath(c.id, file)
      uploadError == UploadImage(upload, ObjectAt(objs, BucketOf(c.ep), path))
  IN IF c.url = "invalid" \/ download = "throws"
       THEN [c EXCEPT !.pc = "update", !.fetched = TRUE, !.newStatus = "failed",
                      !.error = Msg("Failed to download or process the generated image")]
     ELSE IF uploadError # "none"
       THEN [c EXCEPT !.pc = "update", !.fetched = TRUE, !.storagePath = path,
                      !.newStatus = "failed", !.error = UploadErrorText(uploadError)]
     ELSE [c EXCEPT !.pc = "update", !.fetched = TRUE, !.storagePath = path]

GetFetch(k, download, upload) ==
  /\ chk[k].pc = "fetch"
  /\ LET c == chk[k]
         file == GenerateUniqueFilename(downloads[c.id])
         after == AfterFetch(c, objects, download, file, upload)
     IN /\ chk' = [chk EXCEPT ![k] = after]
        /\ objects' = IF after.newStatus = "completed"
                        THEN objects \cup {StoredObject(c.ep, after.storagePath, download)}
                        ELSE objects
        /\ downloads' = [downloads EXCEPT ![c.id] = @ + 1]
  /\ UNCHANGED <<faults, records, nextId, cr, started, created, obs, lastResp, overlapping, req, loop, job, page>>

UpdateGenerationNotesCheck(recs, c, dbOk) ==
  IF dbOk /\ recs[c.id].exists
    THEN [recs EXCEPT ![c.id] =
            UpdatedRecord(@, c.newStatus, c.progress, c.storagePath, Msg("checked"))]
    ELSE recs

\* the update of the row; its result is not looked at
UpdateGeneration(recs, c, dbOk) ==
  IF dbOk /\ recs[c.id].exists
    THEN [recs EXCEPT ![c.id] = UpdatedRecord(@, c.newStatus, c.progress, c.storagePath, c.error)]
    ELSE recs

GetUpdate(k, dbOk, sign) ==
  /\ chk[k].pc = "update"
  /\ LET c == chk[k] IN
       /\ records' = UpdateGeneration(records, c, dbOk)
       /\ obs' = [obs EXCEPT ![c.id] = Observe(@,
            Observation(200, c.newStatus, c.progress,
                        ProjectionUrl(c.ep, c.newStatus, c.storagePath, sign), c.error,
                        c.gen.status, TRUE, TRUE,
                        UpdateStoreCalls(c.ep, c.newStatus, c.storagePath), c.fetched, FALSE))]
       /\ lastResp' = [op |-> "status", http |-> 200, id |-> c.id]
  /\ chk' = [chk EXCEPT ![k] = IdleCheck]
  /\ StoreAnswers(dbOk)
  /\ UNCHANGED <<objects, nextId, cr, started, downloads, created, overlapping, req, loop, job, page>>

\* ---------------------------------------------------------------- next-state relation
\* the steps of the handlers that reach a store or a provider
Handlers ==
  \/ \E p \in ReqPrompts : PostTryOnSubmitFails(p)
  \/ \E p \in ReqPrompts, e \in ExtIds, ok \in BOOLEAN : PostTryOn(p, e, ok)
  \/ \E p \in ReqPrompts, i, m, s \in BOOLEAN : PostCompositeSubmitFails(p, i, m, s)
  \/ \E p \in ReqPrompts, i \in BOOLEAN, e \in ExtIds : PostCompositeSubmit(p, i, e)
  \/ \E st \in PollStatuses : PostCompositeWait(st)
  \/ PostCompositeThrows
  \/ \E ok \in BOOLEAN : PostCompositeDone(ok)
  \/ \E ep \in Endpoints, id \in Ids, sg \in SignAnswers : GetTerminal(ep, id, sg)
  \/ \E k \in Slots, ep \in Endpoints, id \in Ids : GetRead(k, ep, id)
  \/ \E k \in Slots : GetPollThrows(k)
  \/ \E k \in Slots, a \in PollAnswers : GetPoll(k, a)
  \/ \E k \in Slots, d \in DownloadAnswers, u \in UploadAnswers : GetFetch(k, d, u)
  \/ \E k \in Slots, ok \in BOOLEAN, sg \in SignAnswers : GetUpdate(k, ok, sg)

\* the requests answered before any provider call or write
Rejections ==
  \/ \E t \in Endpoints, h \in BOOLEAN, p \in ReqPrompts : PostInvalid(t, h, p)
  \/ \E ep \in Endpoints : GetMissingId(ep)
  \/ \E ep \in Endpoints, id \in Ids, ok \in BOOLEAN : GetNotFound(ep, id, ok)

Next == Handlers \/ Rejections

Spec == Init /\ [][Next]_vars

\* overlapping requests; the rejections, which write nothing the handlers read, are left out
SpecOverlap == InitOverlap /\ [][Handlers]_vars

\* ---------------------------------------------------------------- validation
\* prompt lengths around the limits of the two schemas, and the missing prompt
ValidationPrompts == {NoPrompt, 0, 4, 5, 9, 10, DefaultPromptLength, PromptMax, PromptMax + 1}

\* create requests: the route, whether each image field is a non-empty string, the prompt
Requests ==
  [phase : {"received"}, type : Endpoints, first : BOOLEAN, second : BOOLEAN,
   prompt : ValidationPrompts, used : {NoPrompt}]

InitValidate ==
  /\ records = [i \in Ids |-> NoRecord]
  /\ objects = {}
  /\ nextId = 1
  /\ cr = IdleCreate
  /\ chk = [k \in Slots |-> IdleCheck]
  /\ started = 0
  /\ downloads = [i \in Ids |-> 0]
  /\ faults = 0
  /\ created = [i \in Ids |-> NotCreated]
  /\ obs = [i \in Ids |-> <<>>]
  /\ lastResp = NoResponse
  /\ overlapping = FALSE
  /\ req \in Requests
  /\ loop = NoLoop
  /\ job = NoJob
  /\ page = IdlePage

\* the prompt the handler goes on with, NoPrompt when safeParse fails
SafeParse(r) ==
  LET p == ParsedPrompt(r.type, r.prompt)
  IN IF p # NoPrompt /\ RequestValid(r.type, r.first /\ r.second, p) THEN p ELSE NoPrompt

\* POST up to the call of the provider adapter: 400, or on to the adapter with the prompt
ValidateRequest ==
  /\ req.phase = "received"
  /\ req' = [req EXCEPT !.phase = IF SafeParse(req) = NoPrompt THEN "rejected" ELSE "accepted",
                        !.used = SafeParse(req)]
  /\ lastResp' = IF SafeParse(req) = NoPrompt
                   THEN [op |-> "create", http |-> 400, id |-> NoId]
                   ELSE lastResp
  /\ UNCHANGED <<records, objects, nextId, cr, chk, started, downloads, faults, created, obs, overlapping, loop, job, page>>

SpecValidate == InitValidate /\ [][ValidateRequest]_vars

\* ---------------------------------------------------------------- pollForResults
\* milliseconds
MAX_TIMEOUT == 600000

POLL_INTERVAL == 2000

\* how long one HTTP call of the loop can take, in milliseconds
CallDurations == {0, 1000}

InitPoll ==
  /\ records = [i \in Ids |-> NoRecord]
  /\ objects = {}
  /\ nextId = 1
  /\ cr = IdleCreate
  /\ chk = [k \in Slots |-> IdleCheck]
  /\ started = 0
  /\ downloads = [i \in Ids |-> 0]
  /\ faults = 0
  /\ created = [i \in Ids |-> NotCreated]
  /\ obs = [i \in Ids |-> <<>>]
  /\ lastResp = NoResponse
  /\ overlapping = FALSE
  /\ req = NoRequest
  /\ loop = [pc |-> "while", elapsed |-> 0, outcome |-> "none"]
  /\ job = NoJob
  /\ page = IdlePage

\* Date.now() - startTime < MAX_TIMEOUT
WithinTimeout(elapsed) == elapsed < MAX_TIMEOUT

\* the loop after its HTTP call took d and answered ans
LoopAfterFetchIgnoresFailed(l, d, ans) ==
  IF ~ans.ok
    THEN [pc |-> "threw", elapsed |-> l.elapsed + d, outcome |-> "apiError"]
  ELSE IF ans.status = "succeeded"
    THEN [pc |-> "returned", elapsed |-> l.elapsed + d, outcome |-> "output"]
  ELSE [pc |-> "delay", elapsed |-> l.elapsed + d, outcome |-> "none"]

LoopAfterFetch(l, d, ans) ==
  IF ~ans.ok
    THEN [pc |-> "threw", elapsed |-> l.elapsed + d, outcome |-> "apiError"]
  ELSE IF ans.status = "succeeded"
    THEN [pc |-> "returned", elapsed |-> l.elapsed + d, outcome |-> "output"]
  ELSE IF ans.status = "failed"
    THEN [pc |-> "threw", elapsed |-> l.elapsed + d, outcome |-> "failed"]
  ELSE [pc |-> "delay", elapsed |-> l.elapsed + d, outcome |-> "none"]

\* the while condition: another iteration, or the timeout error after the loop
LoopTest ==
  /\ loop.pc = "while"
  /\ loop' = IF WithinTimeout(loop.elapsed)
               THEN [loop EXCEPT !.pc = "fetch"]
               ELSE [loop EXCEPT !.pc = "threw", !.outcome = "timeout"]
  /\ UNCHANGED <<records, objects, nextId, cr, chk, started, downloads, faults, created, obs, lastResp, overlapping, req, job, page>>

\* the HTTP call returns and its answer is looked at
LoopFetch(d, ans) ==
  /\ loop.pc = "fetch"
  /\ loop' = LoopAfterFetch(loop, d, ans)
  /\ UNCHANGED <<records, objects, nextId, cr, chk, started, downloads, faults, created, obs, lastResp, overlapping, req, job, page>>

\* await delay(POLL_INTERVAL)
LoopDelay ==
  /\ loop.pc = "delay"
  /\ loop' = [loop EXCEPT !.pc = "while", !.elapsed = @ + POLL_INTERVAL]
  /\ UNCHANGED <<records, objects, nextId, cr, chk, started, downloads, faults, created, obs, lastResp, overlapping, req, job, page>>

NextPoll ==
  \/ LoopTest
  \/ \E d \in CallDurations, a \in PollAnswers : LoopFetch(d, a)
  \/ LoopDelay

\* every awaited call returns and the function goes on
SpecPoll == InitPoll /\ [][NextPoll]_vars /\ WF_vars(NextPoll)

\* ---------------------------------------------------------------- properties
Terminal == {"completed", "failed"}

HasObs(id) == obs[id] # <<>>

LastObs(id) == obs[id][1]

\* a step in which a status request for id finds its row
StatusArrives(id) ==
  /\ started' = started + 1
  /\ \/ chk' = chk /\ lastResp'.op = "status" /\ lastResp'.id = id
     \/ \E k \in Slots : chk[k].pc = "idle" /\ chk'[k].pc = "poll" /\ chk'[k].id = id

\* a step in which the provider poll of the check in slot k throws
PollThrows(k) == chk[k].pc = "poll" /\ chk'[k].pc = "idle"

\* C1: a status check of a generation whose stored status is completed or failed
\* polls no provider and writes nothing: the row and the artifact store are the same
\* before and after, and the check ends in the one step.
C1_FinalReadIsPure ==
  [][\A id \in Ids :
       (records[id].status \in Terminal /\ StatusArrives(id))
         => /\ chk' = chk
            /\ records' = records
            /\ objects' = objects
            /\ ~obs'[id][1].polled
            /\ ~obs'[id][1].wrote]_vars

C1_Witness ==
  \E id \in Ids : HasObs(id) /\ LastObs(id).http = 200 /\ ~LastObs(id).polled
                    /\ LastObs(id).readStatus \in Terminal

\* a status check answered from a final row right after another such check
SecondFinalRead(id) ==
  /\ HasObs(id)
  /\ AnsweredFinal(obs[id])
  /\ records[id].status \in Terminal
  /\ StatusArrives(id)

\* C2 as stated: two successive status checks of a completed or failed generation
\* return identical projections and neither calls the artifact store.
C2_IdenticalAndNoStoreCall ==
  [][\A id \in Ids :
       SecondFinalRead(id)
         => /\ obs'[id][1].status = obs[id][1].status
            /\ obs'[id][1].progress = obs[id][1].progress
            /\ obs'[id][1].imageUrl = obs[id][1].imageUrl
            /\ obs'[id][1].error = obs[id][1].error
            /\ obs[id][1].storeCalls = 0
            /\ obs'[id][1].storeCalls = 0]_vars

\* C2 amended: two successive status checks of a completed or failed generation agree
\* on status, progress and error; for a failed one neither carries an imageUrl nor
\* calls the artifact store; for a completed one each makes one signing call and
\* carries an imageUrl for the stored path, signed or public as the call answered.
C2_FinalReadsAgree ==
  [][\A id \in Ids :
       SecondFinalRead(id)
         => /\ obs'[id][1].status = obs[id][1].status
            /\ obs'[id][1].progress = obs[id][1].progress
            /\ obs'[id][1].error = obs[id][1].error
            /\ obs[id][1].status = "failed"
                 => /\ obs[id][1].imageUrl = NoUrl /\ obs'[id][1].imageUrl = NoUrl
                    /\ obs[id][1].storeCalls = 0 /\ obs'[id][1].storeCalls = 0
            /\ obs[id][1].status = "completed"
                 => /\ obs[id][1].storeCalls = 1 /\ obs'[id][1].storeCalls = 1
                    /\ obs[id][1].imageUrl.kind \in {"signed", "public"}
                    /\ obs'[id][1].imageUrl.kind \in {"signed", "public"}
                    /\ obs[id][1].imageUrl.path = records[id].storage_path
                    /\ obs'[id][1].imageUrl.path = records[id].storage_path]_vars

C2_Witness ==
  \E id \in Ids : HasObs(id) /\ LastObs(id).again /\ LastObs(id).status = "completed"
                    /\ LastObs(id).imageUrl.kind = "public"

\* C3: in every interleaving of status checks, a stored status of completed or failed
\* never changes.
C3_FinalStatusIsStable ==
  [][\A id \in Ids :
       records[id].status \in Terminal => records'[id].status = records[id].status]_vars

\* C4: with status checks that do not overlap, the download-and-upload runs at most
\* once for a generation, a completed generation stays completed, and a storagePath
\* that has been set is not changed.
C4_AtMostOneDownload ==
  [][\A id \in Ids :
       /\ downloads'[id] <= 1
       /\ records[id].status = "completed" => records'[id].status = "completed"
       /\ records[id].storage_path # NoPath
            => records'[id].storage_path = records[id].storage_path]_vars

\* C5: when the provider poll of a status check throws, the check answers 500 and the
\* row, which is processing, and the artifact store are left as they were; the next
\* status check of the generation polls the provider again.
C5_PollErrorLeavesRow ==
  [][(\A k \in Slots :
        PollThrows(k)
          => /\ obs'[chk[k].id][1].http = 500
             /\ records[chk[k].id].status = "processing"
             /\ records' = records
             /\ objects' = objects)
     /\
     (\A id \in Ids :
        (HasObs(id) /\ LastObs(id).http = 500 /\ StatusArrives(id))
          => \E s \in Slots : chk'[s].pc = "poll" /\ chk'[s].id = id
                                /\ chk'[s].gen = records[id])]_vars

C5_Witness ==
  \E k \in Slots : /\ chk[k].pc = "poll"
                   /\ HasObs(chk[k].id)
                   /\ LastObs(chk[k].id).http = 500
                   /\ records[chk[k].id].status = "processing"

\* C6: when the provider adapter's submit fails during create, the caller is answered
\* 500 and no row exists under the allocated id.
C6_FailedSubmitLeavesNoRow ==
  \A id \in Ids :
    (created[id].http # 0 /\ created[id].ext = "none")
      => created[id].http = 500 /\ ~records[id].exists

C6_Witness ==
  \E id \in Ids : created[id].http = 500 /\ created[id].ext = "none"
                    /\ created[id].type = "composite"

\* C7: after a create that answers with a generation id, a row is stored under that id
\* with status processing, the provider's id, progress 0 and the caller's metadata.
C7_AnsweredCreateHasRow ==
  [][\A id \in Ids :
       (created[id].http # 200 /\ created'[id].http = 200)
         => /\ records'[id].exists
            /\ records'[id].status = "processing"
            /\ records'[id].external_id = created'[id].ext
            /\ ProgressOrZero(records'[id].progress) = 0
            /\ records'[id].metadata = created'[id].prompt]_vars

\* C8: a create that answers with a generation id has not polled the provider for the
\* outcome of the job: it answers as soon as the job is accepted.
C8_CreateDoesNotWait ==
  \A id \in Ids : created[id].http = 200 => created[id].polls = 0

\* C9: the progress of successive processing answers of a generation never decreases.
C9_ProgressNeverDecreases ==
  [][\A id \in Ids :
       (/\ HasObs(id) /\ obs[id][1].http = 200 /\ obs[id][1].status = "processing"
        /\ obs'[id] # <<>> /\ obs'[id][1].http = 200 /\ obs'[id][1].status = "processing")
         => obs'[id][1].progress >= obs[id][1].progress]_vars

\* C10: a completed or failed generation has progress 100, in the answer of the check
\* that makes the transition, in the stored row and in every later answer.
C10_FinalProgressIs100 ==
  \A id \in Ids :
    /\ (HasObs(id) /\ LastObs(id).http = 200 /\ LastObs(id).status \in Terminal)
         => LastObs(id).progress = 100
    /\ records[id].status \in Terminal => records[id].progress = 100

\* C11: a row has a storagePath only if its status is completed; rows in processing or
\* failed state carry none.
C11_PathOnlyWhenCompleted ==
  \A id \in Ids :
    records[id].storage_path # NoPath => records[id].status = "completed"

\* provider outputs that hold a URL: a string, a non-empty array, an object with a known key
ResolvableOutputs ==
  {"str", "arr", "objImage", "objUrl", "objOutput", "objResult", "objGenerated"}

\* provider outputs that hold none: an object without a known key, an empty array
UnresolvableOutputs == {"objOther", "emptyArr"}

NoOutputTexts ==
  {"No output image received from the API. Output format",
   "No output image received from the API"}

\* a step in which the check in slot k receives the poll answer a
PollAnswered(k, a) ==
  chk[k].pc = "poll" /\ a.ok /\ chk'[k] = AfterPoll(chk[k], a)

\* C12: on both routes, when the poll reports success with an output that holds a URL
\* the check resolves the URL and goes on to the download; with an output that holds
\* none the check goes on to write failed with the no-output-image error.
C12_OutputResolution ==
  [][\A k \in Slots, a \in PollAnswers :
       (PollAnswered(k, a) /\ a.status \in SuccessStatuses(chk[k].ep))
         => /\ a.output \in ResolvableOutputs
                 => chk'[k].pc = "fetch" /\ chk'[k].url = "valid"
            /\ a.output \in UnresolvableOutputs
                 => /\ chk'[k].pc = "update"
                    /\ chk'[k].newStatus = "failed"
                    /\ chk'[k].error[1] \in NoOutputTexts]_vars

\* a step in which the check in slot k writes the row and answers
Updates(k) == chk[k].pc = "update" /\ chk'[k].pc = "idle"

\* the store accepted the write of the step
WriteAccepted == faults' = faults

FetchAnswered(k, d, u) ==
  /\ chk[k].pc = "fetch"
  /\ chk'[k] = AfterFetch(chk[k], objects, d, GenerateUniqueFilename(downloads[chk[k].id]), u)

\* upload answers after which the error uploadImage returns names the bucket: the
\* store's message names it, or uploadImage replaced a 'not found' message by its own
BucketUploadErrors == {"errBucket", "errNotFound"}

\* upload answers after which uploadImage returns any other error
OtherUploadErrors == {"errOther", "throws"}

AnswersStatus(id) ==
  \/ StatusArrives(id) /\ chk' = chk
  \/ \E k \in Slots : Updates(k) /\ chk[k].id = id

Buckets == {"try-on-images", "composite-images"}

\* the URLs getImageUrl can answer for a stored path
UrlsFor(path) ==
  [kind : {"signed"}, bucket : Buckets, path : {path}, token : {"token"}]
    \cup [kind : {"public"}, bucket : Buckets, path : {path}, token : {"none"}]

\* C16: a projection with status completed always carries an imageUrl, for the
\* storagePath of the generation: the signed URL, or the public URL of bucket and path
\* when the signing call errors or throws; the status check still answers 200.
C16_CompletedHasUrl ==
  [][/\ \A id \in Ids :
          (AnswersStatus(id) /\ obs'[id][1].status = "completed")
            => /\ obs'[id][1].http = 200
               /\ obs'[id][1].imageUrl # NoUrl
               /\ obs'[id][1].imageUrl.path # NoPath
               /\ obs'[id][1].imageUrl.path.gen = id
               /\ obs'[id][1].imageUrl \in UrlsFor(obs'[id][1].imageUrl.path)
     /\ \A id \in Ids :
          (StatusArrives(id) /\ chk' = chk /\ records[id].status = "completed")
            => obs'[id][1].imageUrl \in UrlsFor(records[id].storage_path)
     /\ \A k \in Slots :
          (Updates(k) /\ chk[k].newStatus = "completed")
            => obs'[chk[k].id][1].imageUrl \in UrlsFor(chk[k].storagePath)]_vars

C16_Witness ==
  \E id \in Ids : /\ HasObs(id)
                  /\ LastObs(id).http = 200
                  /\ LastObs(id).status = "completed"
                  /\ LastObs(id).imageUrl.kind = "public"
                  /\ LastObs(id).imageUrl.path = records[id].storage_path
                  /\ LastObs(id).polled

\* a create request of the given route and prompt with both images has been answered
Answered(type, prompt) ==
  req.phase # "received" /\ req.type = type /\ req.prompt = prompt /\ req.first /\ req.second

\* C17: with both images present, a composite create is rejected with 400 for a prompt
\* of 9 characters and accepted for one of 10; a try-on create is rejected for 4 and
\* accepted for 5; both are accepted for 1000 and rejected for 1001; a try-on create
\* without a prompt goes on with the 25 characters of 'A person wearing clothing'.
C17_PromptBoundaries ==
  /\ Answered("composite", 9) => req.phase = "rejected" /\ lastResp.http = 400
  /\ Answered("composite", 10) => req.phase = "accepted" /\ req.used = 10
  /\ Answered("try-on", 4) => req.phase = "rejected" /\ lastResp.http = 400
  /\ Answered("try-on", 5) => req.phase = "accepted" /\ req.used = 5
  /\ \A t \in Endpoints :
       /\ Answered(t, 1000) => req.phase = "accepted" /\ req.used = 1000
       /\ Answered(t, 1001) => req.phase = "rejected" /\ lastResp.http = 400
  /\ Answered("try-on", NoPrompt) => req.phase = "accepted" /\ req.used = 25

C17_Witness ==
  req.phase = "accepted" /\ req.type = "try-on" /\ req.prompt = NoPrompt /\ req.used = 25

\* a step in which a status request is answered 400 or 404
StatusRejected ==
  /\ lastResp'.op = "status"
  /\ lastResp'.http \in {400, 404}
  /\ lastResp' # lastResp \/ faults' # faults

\* C18: a status check without an id answers 400 and one whose id has no row answers
\* 404; a status check answered 400 or 404 polls no provider, starts no download or
\* upload, calls no artifact store and writes no row.
C18_RejectedStatusChecks ==
  [][/\ StatusRejected
          => /\ records' = records
             /\ objects' = objects
             /\ chk' = chk
             /\ started' = started
             /\ downloads' = downloads
             /\ obs' = obs
             /\ lastResp'.id = NoId <=> lastResp'.http = 400
     /\ (lastResp'.op = "status" /\ lastResp' # lastResp)
          => /\ lastResp'.id = NoId => lastResp'.http = 400
             /\ (lastResp'.id # NoId /\ ~records[lastResp'.id].exists) => lastResp'.http = 404]_vars

C18_Witness ==
  /\ lastResp.op = "status"
  /\ lastResp.http = 404
  /\ ~records[lastResp.id].exists
  /\ faults = 0
  /\ nextId > 1

\* a step in which a status check of id, which has a row, is answered
AnswersExisting(id) ==
  /\ records[id].exists
  /\ lastResp'.op = "status"
  /\ lastResp'.id = id
  /\ lastResp' # lastResp \/ faults' # faults \/ obs' # obs

WellFormed(o) ==
  /\ o.http = 200
  /\ o.status \in {"processing", "completed", "failed"}
  /\ o.progress \in 0..100

C20_NoTempObjectLeft ==
  \A id \in Ids :
    created[id].http # 0
      => \A o \in objects : ~(o.bucket = "temp-bucket" /\ o.gen = id)

LoopDone == loop.pc \in {"returned", "threw"}

\* a step in which the loop's HTTP call took d and answered a
LoopAnswered(d, a) == loop.pc = "fetch" /\ loop' = LoopAfterFetch(loop, d, a)

\* C21: pollForResults terminates when each of its HTTP calls returns. It returns the
\* output when the provider reports succeeded and throws when the call is not OK or the
\* provider reports failed; otherwise it waits 2000 ms and tests the time again; it polls
\* only while less than 600000 ms have passed and throws the timeout error once they
\* have; after it has returned or thrown it does nothing more.
C21_PollLoopTerminates ==
  /\ <>LoopDone
  /\ [][/\ \A d \in CallDurations, a \in PollAnswers :
             LoopAnswered(d, a)
               => /\ (a.ok /\ a.status = "succeeded")
                       => loop'.pc = "returned" /\ loop'.outcome = "output"
                  /\ ~a.ok => loop'.pc = "threw" /\ loop'.outcome = "apiError"
                  /\ (a.ok /\ a.status = "failed")
                       => loop'.pc = "threw" /\ loop'.outcome = "failed"
                  /\ (a.ok /\ a.status \notin {"succeeded", "failed"})
                       => loop'.pc = "delay"
        /\ loop.pc = "delay"
             => loop'.pc = "while" /\ loop'.elapsed = loop.elapsed + 2000
        /\ loop.pc = "while"
             => /\ loop.elapsed < 600000 => loop'.pc = "fetch"
                /\ loop.elapsed >= 600000 => loop'.pc = "threw" /\ loop'.outcome = "timeout"
        /\ loop'.pc = "fetch" => loop.elapsed < 600000
        /\ LoopDone => loop' = loop]_vars

C21_Witness ==
  loop.pc = "threw" /\ loop.outcome = "timeout" /\ loop.elapsed >= 600000

C23_RowEqualsProjection ==
  [][\A k \in Slots :
       Updates(k)
         => /\ records'[chk[k].id].status = obs'[chk[k].id][1].status
            /\ records'[chk[k].id].progress = obs'[chk[k].id][1].progress
            /\ records'[chk[k].id].error = obs'[chk[k].id][1].error
            /\ records'[chk[k].id].storage_path = chk[k].storagePath]_vars

\* C24: a status check polls through the adapter of the generation's type and stores
\* the output in the bucket of its type, whichever route received the request: a check
\* in flight runs on the route of the row's type, and every stored output lies in the
\* bucket of the type of its generation.
C24_RouteMatchesType ==
  /\ \A k \in Slots : chk[k].pc # "idle" => chk[k].ep = chk[k].gen.type
  /\ \A o \in objects :
       o.bucket \in Buckets => o.bucket = BucketOf(records[o.gen].type)

\* C25: in every reachable state, also with overlapping status checks, a row whose status
\* is completed has a storagePath made of its generation id and a file name, and an
\* object uploaded for it exists at that path in the artifact bucket the check wrote to.
C25_CompletedHasStoredObject ==
  \A id \in Ids :
    records[id].status = "completed"
      => /\ records[id].storage_path # NoPath
         /\ records[id].storage_path.gen = id
         /\ records[id].storage_path.name > 0
         /\ \E o \in objects : /\ o.bucket \in Buckets
                               /\ o.gen = id
                               /\ o.name = records[id].storage_path.name

C25_Witness ==
  \E id \in Ids : /\ records[id].status = "completed"
                  /\ downloads[id] = 2
                  /\ \E o \in objects : /\ o.bucket \in Buckets
                                        /\ o.gen = id
                                        /\ o.name = records[id].storage_path.name
                  /\ \E k \in Slots : chk[k].pc = "update" /\ chk[k].id = id

\* C26: with requests handled one after the other, a row holds an error only if its
\* status is failed, and a status check leaves an error that a row holds as it is.
C26_ErrorOnlyWhenFailed ==
  [][\A id \in Ids :
       /\ records'[id].error # NoError => records'[id].status = "failed"
       /\ records[id].error # NoError => records'[id].error = records[id].error]_vars

C26_Witness ==
  \E id \in Ids : /\ records[id].status = "failed"
                  /\ records[id].error # NoError
                  /\ HasObs(id)
                  /\ LastObs(id).http = 200
                  /\ ~LastObs(id).polled
                  /\ LastObs(id).error = records[id].error

\* the check in slot k has downloaded and uploaded the output and is about to write
\* completed
Uploaded(k) ==
  chk[k].pc = "update" /\ chk[k].fetched /\ chk[k].newStatus = "completed"

HasObject(objs, id, path) ==
  \E o \in objs : o.bucket \in Buckets /\ o.gen = id /\ o.name = path.name

\* C27: when two overlapping status checks of a processing generation both get a
\* succeeded poll and both download and upload, the upload of the later one is not
\* refused because of the earlier one, the two objects lie at different paths and both
\* stay in the store; a check that writes completed after the other has done so leaves
\* the row completed with its own path, the other object staying behind unreferenced.
C27_RacingUploads ==
  [][/\ \A k, j \in Slots :
          (k # j /\ Uploaded(k) /\ Uploaded(j) /\ chk[k].id = chk[j].id)
            => /\ chk[k].storagePath # chk[j].storagePath
               /\ HasObject(objects, chk[k].id, chk[k].storagePath)
               /\ HasObject(objects, chk[j].id, chk[j].storagePath)
     /\ \A k \in Slots, d \in DownloadAnswers :
          (FetchAnswered(k, d, "ok") /\ chk[k].url = "valid" /\ d # "throws")
            => /\ chk'[k].newStatus = "completed"
               /\ ~HasObject(objects, chk[k].id, chk'[k].storagePath)
               /\ HasObject(objects', chk[k].id, chk'[k].storagePath)
               /\ objects \subseteq objects'
     /\ \A k \in Slots :
          (/\ Updates(k) /\ Uploaded(k) /\ WriteAccepted
           /\ records[chk[k].id].status = "completed"
           /\ records[chk[k].id].storage_path # chk[k].storagePath)
            => /\ records'[chk[k].id].status = "completed"
               /\ records'[chk[k].id].storage_path = chk[k].storagePath
               /\ HasObject(objects', chk[k].id, records'[chk[k].id].storage_path)
               /\ HasObject(objects', chk[k].id, records[chk[k].id].storage_path)]_vars

C27_Witness ==
  \E id \in Ids :
    /\ records[id].status = "completed"
    /\ downloads[id] = 2
    /\ \A k \in Slots : chk[k].pc = "idle"
    /\ HasObject(objects, id, records[id].storage_path)
    /\ \E o \in objects : /\ o.bucket \in Buckets /\ o.gen = id
                          /\ o.name # records[id].storage_path.name
    /\ faults = 0

\* ---------------------------------------------------------------- a followed try-on job
\* the generation whose provider job is followed
LiveId == 1

\* the provider job before it ends
RunningJob == [ok |-> TRUE, status |-> "processing", output |-> "none", error |-> "none"]

\* what the provider reports once the job has ended, from then on
FinalAnswers ==
  [ok : {TRUE}, status : {"succeeded"}, output : Outputs, error : {"none"}]
    \cup [ok : {TRUE}, status : {"failed"}, output : {"none"}, error : ProviderErrors]

\* what a poll that does not throw answers for the followed job
LiveAnswers(j) ==
  IF j = RunningJob
    THEN [ok : {TRUE}, status : {"starting", "processing"}, output : {"none"}, error : {"none"}]
    ELSE {j}

\* the state after a try-on create that inserted its row and answered 200
InitLive ==
  /\ records = [i \in Ids |-> IF i = LiveId THEN InsertedRecord("try-on", "predA", 10)
                                             ELSE NoRecord]
  /\ objects = {}
  /\ nextId = LiveId + 1
  /\ cr = IdleCreate
  /\ chk = [k \in Slots |-> IdleCheck]
  /\ started = 0
  /\ downloads = [i \in Ids |-> 0]
  /\ faults = 0
  /\ created = [i \in Ids |-> IF i = LiveId THEN CreateResponse(200, "try-on", "predA", 10, 0)
                                             ELSE NotCreated]
  /\ obs = [i \in Ids |-> <<>>]
  /\ lastResp = [op |-> "create", http |-> 200, id |-> LiveId]
  /\ overlapping = FALSE
  /\ req = NoRequest
  /\ loop = NoLoop
  /\ job = RunningJob
  /\ page = IdlePage

\* the provider job ends, succeeded or failed
JobFinishes(a) ==
  /\ job = RunningJob
  /\ job' = a
  /\ UNCHANGED <<records, objects, nextId, cr, chk, started, downloads, faults, created, obs,
                 lastResp, overlapping, req, loop, page>>

\* the client starts a status check of the generation on the try-on route
LiveStart ==
  \/ \E sg \in SignAnswers : GetTerminal("try-on", LiveId, sg)
  \/ \E k \in Slots : GetRead(k, "try-on", LiveId)

\* a poll of the provider that answers
LivePoll == \E k \in Slots, a \in LiveAnswers(job) : GetPoll(k, a)

LiveFetch == \E k \in Slots, d \in DownloadAnswers, u \in UploadAnswers : GetFetch(k, d, u)

LiveUpdate == \E k \in Slots, ok \in BOOLEAN, sg \in SignAnswers : GetUpdate(k, ok, sg)

NextLive ==
  \/ \E a \in FinalAnswers : JobFinishes(a)
  \/ LiveStart
  \/ \E ok \in BOOLEAN : GetNotFound("try-on", LiveId, ok)
  \/ \E k \in Slots : GetPollThrows(k)
  \/ LivePoll
  \/ LiveFetch
  \/ LiveUpdate

\* the client keeps checking, the handler's awaits return, the job ends, and a poll
\* that can answer again and again does answer
SpecLive ==
  /\ InitLive
  /\ [][NextLive]_vars
  /\ WF_vars(\E a \in FinalAnswers : JobFinishes(a))
  /\ WF_vars(LiveStart)
  /\ SF_vars(LivePoll)
  /\ WF_vars(LiveFetch)
  /\ WF_vars(LiveUpdate)

C29_CompletedArtifactIsImage ==
  \A id \in Ids :
    records[id].status = "completed"
      => \A o \in objects :
           (o.bucket \in Buckets /\ o.gen = id /\ o.name = records[id].storage_path.name)
             => o.content = "image"

\* ---------------------------------------------------------------- the page's polling
\* how a status request of the page ends: the status in the response, or "error" for a
\* non-success response or a fetch that throws
PageAnswers == {"starting", "processing", "completed", "failed", "error"}

\* handleGenerateTryOn / handleGenerateComposite after a 200: the id is stored and
\* polling is switched on
PageGenerate(ep) ==
  /\ page[ep].status = "none"
  /\ page' = [page EXCEPT ![ep] = [@ EXCEPT !.isPolling = TRUE, !.status = "processing"]]
  /\ UNCHANGED <<records, objects, nextId, cr, chk, started, downloads, faults, created, obs,
                 lastResp, overlapping, req, loop, job>>

\* the effect runs for isPolling = true: setInterval, then the initial poll, which
\* sends its request
PageEffect(ep) ==
  /\ page[ep].isPolling
  /\ ~page[ep].interval
  /\ page' = [page EXCEPT ![ep] = [@ EXCEPT !.interval = TRUE, !.inFlight = @ + 1]]
  /\ UNCHANGED <<records, objects, nextId, cr, chk, started, downloads, faults, created, obs,
                 lastResp, overlapping, req, loop, job>>

\* the interval fires: the callback of the effect that set it sees the id and
\* isPolling = true of its render, and sends a request
PageTick(ep) ==
  /\ page[ep].interval
  /\ page[ep].inFlight < MaxInFlight
  /\ page' = [page EXCEPT ![ep] = [@ EXCEPT !.inFlight = @ + 1]]
  /\ UNCHANGED <<records, objects, nextId, cr, chk, started, downloads, faults, created, obs,
                 lastResp, overlapping, req, loop, job>>

\* the poller after a request ends with answer a
AfterResponse(p, a) ==
  IF a = "error"
    THEN [p EXCEPT !.inFlight = @ - 1, !.error = TRUE, !.isPolling = FALSE]
    ELSE [p EXCEPT !.inFlight = @ - 1, !.status = a,
                   !.error = IF a = "failed" THEN TRUE ELSE @,
                   !.isPolling = IF a \in {"completed", "failed"} THEN FALSE ELSE @]

PageResponse(ep, a) ==
  /\ page[ep].inFlight > 0
  /\ page' = [page EXCEPT ![ep] = AfterResponse(@, a)]
  /\ UNCHANGED <<records, objects, nextId, cr, chk, started, downloads, faults, created, obs,
                 lastResp, overlapping, req, loop, job>>

\* the re-render after setIsPolling(false) runs the effect's cleanup: clearInterval
PageCleanup(ep) ==
  /\ ~page[ep].isPolling
  /\ page[ep].interval
  /\ page' = [page EXCEPT ![ep] = [@ EXCEPT !.interval = FALSE]]
  /\ UNCHANGED <<records, objects, nextId, cr, chk, started, downloads, faults, created, obs,
                 lastResp, overlapping, req, loop, job>>

NextPage ==
  \/ \E ep \in Endpoints : PageGenerate(ep)
  \/ \E ep \in Endpoints : PageEffect(ep)
  \/ \E ep \in Endpoints : PageTick(ep)
  \/ \E ep \in Endpoints, a \in PageAnswers : PageResponse(ep, a)
  \/ \E ep \in Endpoints : PageCleanup(ep)

SpecPage == Init /\ [][NextPage]_vars

\* C30: while a polling loop of the page runs, at most one status request of its
\* generation is in flight, however long a request takes; and once a response with
\* status completed or failed, or a failed request, has switched polling off, no
\* further status request is started.
C30_OneRequestAtATime ==
  [][\A ep \in Endpoints :
       /\ page'[ep].inFlight <= 1
       /\ (page[ep].status # "none" /\ ~page[ep].isPolling)
            => page'[ep].inFlight <= page[ep].inFlight]_vars
====
